---- MODULE Spec2Model ----
(***************************************************************************)
(* Model of the rule-based safety policy engine:                           *)
(*   src/src/guardrails/safety_manager.py   (SafetyManager)                *)
(*   src/src/guardrails/output_guardrail.py (OutputGuardrail)              *)
(*   src/src/guardrails/input_guardrail.py  (InputGuardrail)               *)
(*   src/src/ui/cli.py, src/src/ui/streamlit_app.py (the caller flows)     *)
(*                                                                         *)
(* Text.  A Python string is a sequence of tokens joined by single spaces. *)
(* A token [k |-> text, n |-> length] is a phrase of n characters.  The    *)
(* regular expressions of the rule table are modelled by the table         *)
(* Matched, which lists for every phrase the patterns that re.search finds *)
(* in it; none of the patterns matches across the joining space of two     *)
(* phrases of the vocabulary, so a pattern is found in a text exactly when *)
(* it is found in one of its phrases, and re.sub rewrites exactly the      *)
(* phrases the pattern matches: the whole phrase, or the part of it that   *)
(* Rewrite lists.                                                          *)
(*                                                                         *)
(* Python's None is the record None; a value that may be None is wrapped   *)
(* as Some(v).  A dict is a record with exactly the dict's keys.  The      *)
(* wall-clock "timestamp" of an event is not modelled.                     *)
(***************************************************************************)
EXTENDS Integers, Sequences, FiniteSets, TLC

VARIABLES
    enabled,           \* SafetyManager.enabled (config "enabled")
    log_events,        \* SafetyManager.log_events (config "log_events")
    safety_events,     \* SafetyManager.safety_events of the application's manager
    og_safety_events,  \* safety_events of the manager owned by the OutputGuardrail
    ig_safety_events,  \* safety_events of the manager owned by the InputGuardrail
    safety_log,        \* the lines of logs/safety_events.log
    calls,             \* the calls of concurrent callers on the application's manager
    flow,              \* the position of the user interface in its query loop
    ret                \* the last call and the value it returned

vars == <<enabled, log_events, safety_events, og_safety_events, ig_safety_events,
          safety_log, calls, flow, ret>>

None == [none |-> TRUE]

Some(v) == [some |-> v]

\* the element of a one-element set; The({e(x) : x \in {v}}) is LET x == v IN e(x)
\* with v evaluated once
The(S) == CHOOSE x \in S : TRUE

\* dict.get(key, default)
Get(d, key, default) == IF key \in DOMAIN d THEN d[key] ELSE default

(***************************************************************************)
(* Text                                                                    *)
(***************************************************************************)
Tok(text, length) == [k |-> text, n |-> length]

RECURSIVE SumLen(_)
SumLen(s) == IF s = <<>> THEN 0 ELSE Head(s).n + SumLen(Tail(s))

\* len(content): the phrases and the spaces that join them
PyLen(content) == IF content = <<>> THEN 0 ELSE SumLen(content) + Len(content) - 1

\* content.strip(): the text without its leading and trailing whitespace phrases
\* (the joining spaces next to them go with them)
Strip(content) ==
    LET solid == {i \in DOMAIN content : content[i].k \notin {" ", ""}}
    IN  IF solid = {} THEN <<>>
        ELSE SubSeq(content,
                    CHOOSE i \in solid : \A j \in solid : i <= j,
                    CHOOSE i \in solid : \A j \in solid : j <= i)

\* The patterns re.search(pattern, text, re.IGNORECASE) finds in one phrase.
Matched(tok) ==
    CASE tok.k = "hack"                         -> {"harmful_content/0"}
      [] tok.k = "ignore previous instructions" -> {"prompt_injection/0"}
      [] tok.k = "reveal your prompt"           -> {"data_extraction/2"}
      [] tok.k = "stupid"                       -> {"personal_attacks/0"}
      [] tok.k = "weather today"                -> {"off_topic/1"}
      [] tok.k = "how to hack"                  -> {"harmful_content/0", "harmful_instructions/0"}
      [] tok.k = "john@example.com"             -> {"personal_data/1", "sources"}
      [] tok.k = "123-45-6789"                  -> {"personal_data/0"}
      [] tok.k = "www.hci.org"                  -> {"sources"}
      [] tok.k = "as an AI assistant"           -> {"hallucination_markers/1"}
      [] tok.k = "steps to harm@evil.com"       ->
            {"harmful_instructions/1", "personal_data/1", "sources"}
      [] tok.k = "[CONTENT REMOVED: Potentially harmful instructions]@evil.com" -> {"sources"}
      [] OTHER                                  -> {}

\* re.search(pattern, content, re.IGNORECASE) is not None
ReSearch(pattern, content) == \E i \in DOMAIN content : pattern \in Matched(content[i])

\* len(replacement)
ReplLen(replacement) ==
    CASE replacement = "[CONTENT REMOVED: Potentially harmful instructions]" -> 51
      [] replacement = "[REDACTED: Personal Information]"                    -> 32
      [] OTHER                                                               -> 10

\* A phrase after the match of the pattern in it is replaced.  The match is the
\* whole phrase, except in "steps to harm@evil.com": there one pattern matches
\* "steps to harm" and another one "harm@evil.com".
Rewrite(tok, pattern, replacement) ==
    CASE tok.k = "steps to harm@evil.com" /\ pattern = "harmful_instructions/1" ->
            Tok(replacement \o "@evil.com", ReplLen(replacement) + 9)
      [] tok.k = "steps to harm@evil.com" /\ pattern = "personal_data/1" ->
            Tok("steps to " \o replacement, 9 + ReplLen(replacement))
      [] OTHER -> Tok(replacement, ReplLen(replacement))

\* re.sub(pattern, replacement, content, flags=re.IGNORECASE)
ReSub(pattern, replacement, content) ==
    [i \in DOMAIN content |->
        IF pattern \in Matched(content[i])
        THEN Rewrite(content[i], pattern, replacement)
        ELSE content[i]]

(***************************************************************************)
(* The rule tables, in declaration order (a dict iterates in insertion     *)
(* order)                                                                  *)
(***************************************************************************)
input_filters == <<
    [category |-> "harmful_content",
     patterns |-> <<"harmful_content/0", "harmful_content/1", "harmful_content/2">>,
     severity |-> "high", action |-> "refuse",
     message  |-> "This query contains potentially harmful content that violates our safety policies."],
    [category |-> "prompt_injection",
     patterns |-> <<"prompt_injection/0", "prompt_injection/1", "prompt_injection/2",
                    "prompt_injection/3", "prompt_injection/4">>,
     severity |-> "high", action |-> "refuse",
     message  |-> "This appears to be a prompt injection attempt and cannot be processed."],
    [category |-> "personal_attacks",
     patterns |-> <<"personal_attacks/0", "personal_attacks/1">>,
     severity |-> "medium", action |-> "refuse",
     message  |-> "This query contains personal attacks or offensive language."],
    [category |-> "off_topic",
     patterns |-> <<"off_topic/0", "off_topic/1", "off_topic/2", "off_topic/3",
                    "off_topic/4", "off_topic/5", "off_topic/6">>,
     severity |-> "low", action |-> "redirect",
     message  |-> "This query appears to be off-topic. This system specializes in HCI and agentic UX research. Please ask questions related to user experience, AI agents, or human-computer interaction."],
    [category |-> "data_extraction",
     patterns |-> <<"data_extraction/0", "data_extraction/1", "data_extraction/2">>,
     severity |-> "high", action |-> "refuse",
     message  |-> "This query attempts to extract system information and is not allowed."] >>

output_filters == <<
    [category |-> "harmful_instructions",
     patterns |-> <<"harmful_instructions/0", "harmful_instructions/1">>,
     severity |-> "high", action |-> "redact",
     replacement |-> "[CONTENT REMOVED: Potentially harmful instructions]"],
    [category |-> "personal_data",
     patterns |-> <<"personal_data/0", "personal_data/1", "personal_data/2">>,
     severity |-> "high", action |-> "redact",
     replacement |-> "[REDACTED: Personal Information]"],
    [category |-> "low_quality",
     checks   |-> << [type |-> "length", min |-> 50,
                      message |-> "Response is too short (less than 50 characters)"],
                     [type |-> "no_sources", pattern |-> "sources",
                      message |-> "Response contains no citations or sources"] >>,
     severity |-> "medium", action |-> "flag"],
    [category |-> "hallucination_markers",
     patterns |-> <<"hallucination_markers/0", "hallucination_markers/1",
                    "hallucination_markers/2">>,
     severity |-> "low", action |-> "flag"] >>

(***************************************************************************)
(* SafetyManager._check_filter                                             *)
(***************************************************************************)
\* mutant: the last pattern of the policy found in the content is reported
LastPattern(content, patterns) ==
    IF \E i \in DOMAIN patterns : ReSearch(patterns[i], content)
    THEN CHOOSE i \in DOMAIN patterns :
            /\ ReSearch(patterns[i], content)
            /\ \A j \in (i + 1)..Len(patterns) : ~ReSearch(patterns[j], content)
    ELSE 0

\* the first pattern of the policy found in the content, 0 if none
FirstPattern(content, patterns) ==
    IF \E i \in DOMAIN patterns : ReSearch(patterns[i], content)
    THEN CHOOSE i \in DOMAIN patterns :
            /\ ReSearch(patterns[i], content)
            /\ \A j \in 1..(i - 1) : ~ReSearch(patterns[j], content)
    ELSE 0

\* whether one structural check of a policy triggers
CheckTriggers(content, check) ==
    CASE check.type = "length"     -> PyLen(content) < Get(check, "min", 0)
      [] check.type = "no_sources" -> ~ReSearch(Get(check, "pattern", ""), content)
      [] OTHER                     -> FALSE

FirstCheck(content, checks) ==
    IF \E i \in DOMAIN checks : CheckTriggers(content, checks[i])
    THEN CHOOSE i \in DOMAIN checks :
            /\ CheckTriggers(content, checks[i])
            /\ \A j \in 1..(i - 1) : ~CheckTriggers(content, checks[j])
    ELSE 0

\* f"Content violates {category} policy"
ViolatesMessage(category) ==
    CASE category = "harmful_instructions"  -> "Content violates harmful_instructions policy"
      [] category = "personal_data"         -> "Content violates personal_data policy"
      [] category = "hallucination_markers" -> "Content violates hallucination_markers policy"
      [] OTHER                              -> "Content violates policy"

\* The rule table has no "keywords" policy, so the keyword loop of
\* _check_filter iterates over the empty default and returns nothing.
_check_filter(content, category, filter_config, check_type) ==
    LET patterns == Get(filter_config, "patterns", <<>>)
        checks   == Get(filter_config, "checks", <<>>)
        p        == FirstPattern(content, patterns)
        c        == FirstCheck(content, checks)
    IN  IF p # 0
        THEN Some([category |-> category,
                   severity |-> Get(filter_config, "severity", "medium"),
                   action   |-> Get(filter_config, "action", "refuse"),
                   message  |-> Get(filter_config, "message", ViolatesMessage(category)),
                   matched_pattern |-> patterns[p],
                   type     |-> check_type])
        ELSE IF c # 0
        THEN Some([category |-> category,
                   severity |-> Get(filter_config, "severity", "medium"),
                   action   |-> Get(filter_config, "action", "flag"),
                   message  |-> Get(checks[c], "message",
                                    IF checks[c].type = "length"
                                    THEN "Content quality issue" ELSE "No sources found"),
                   type     |-> check_type])
        ELSE None

(***************************************************************************)
(* SafetyManager._severity_level                                           *)
(***************************************************************************)
_severity_level(severity) ==
    CASE severity = "low"    -> 1
      [] severity = "medium" -> 2
      [] severity = "high"   -> 3
      [] OTHER               -> 0

(***************************************************************************)
(* Slices and previews                                                     *)
(***************************************************************************)
\* the first m characters of a phrase; a cut phrase is never searched again
Prefix(tok, m) ==
    IF tok.k \in {" ", "~"} THEN Tok(tok.k, m) ELSE [k |-> "<prefix>", n |-> m, of |-> tok.k]

\* content[:n]
RECURSIVE Take(_, _)
Take(content, n) ==
    IF content = <<>> \/ n <= 0 THEN <<>>
    ELSE LET h == Head(content)
         IN  IF n < h.n THEN <<Prefix(h, n)>>
             ELSE IF n = h.n \/ Tail(content) = <<>> THEN <<h>>
             ELSE LET rest == Take(Tail(content), n - h.n - 1)
                  IN  IF rest = <<>> THEN <<h, Tok("", 0)>> ELSE <<h>> \o rest

\* content[:100] + "..." if len(content) > 100 else content
Preview(content) ==
    IF PyLen(content) > 100
    THEN [text |-> Take(content, 100), ellipsis |-> TRUE]
    ELSE [text |-> content, ellipsis |-> FALSE]

(***************************************************************************)
(* Python's max over strings: str comparison is by code point              *)
(***************************************************************************)
CodePoints(s) ==
    CASE s = "high"   -> <<104, 105, 103, 104>>
      [] s = "low"    -> <<108, 111, 119>>
      [] s = "medium" -> <<109, 101, 100, 105, 117, 109>>
      [] s = "none"   -> <<110, 111, 110, 101>>

RECURSIVE SeqGreater(_, _)
SeqGreater(a, b) ==
    IF a = <<>> THEN FALSE
    ELSE IF b = <<>> THEN TRUE
    ELSE IF Head(a) # Head(b) THEN Head(a) > Head(b)
    ELSE SeqGreater(Tail(a), Tail(b))

\* a > b for two Python strings
StrGreater(a, b) == SeqGreater(CodePoints(a), CodePoints(b))

RECURSIVE MaxFrom(_, _)
MaxFrom(best, rest) ==
    IF rest = <<>> THEN best
    ELSE MaxFrom(IF StrGreater(Head(rest), best) THEN Head(rest) ELSE best, Tail(rest))

\* max(strings, default=default)
PyMax(strings, default) ==
    IF strings = <<>> THEN default ELSE MaxFrom(Head(strings), Tail(strings))

\* mutant: the new event is inserted at the front of the log
LogSafetyEventPrepend(events, event_type, content, violations, is_safe) ==
    <<[type             |-> event_type,
       content_preview  |-> Preview(content),
       is_safe          |-> is_safe,
       violations       |-> violations,
       num_violations   |-> Len(violations),
       categories       |-> [i \in DOMAIN violations |-> violations[i].category],
       highest_severity |-> PyMax([i \in DOMAIN violations |-> violations[i].severity],
                                  "none")]>> \o events

(***************************************************************************)
(* SafetyManager._log_safety_event: the event log after the call           *)
(***************************************************************************)
_log_safety_event(events, event_type, content, violations, is_safe) ==
    Append(events,
        [type             |-> event_type,
         content_preview  |-> Preview(content),
         is_safe          |-> is_safe,
         violations       |-> violations,
         num_violations   |-> Len(violations),
         categories       |-> [i \in DOMAIN violations |-> violations[i].category],
         highest_severity |-> PyMax([i \in DOMAIN violations |-> violations[i].severity],
                                    "none")])

(***************************************************************************)
(* SafetyManager.check_input_safety                                        *)
(* self is [enabled, log_events, safety_events]; the value is              *)
(* [result |-> the returned dict, events |-> safety_events after the call] *)
(***************************************************************************)
\* mutant: every violation overrides the action and the message (the last one wins)
InputStepLastWins(st, query, filter_config) ==
    LET violation == _check_filter(query, filter_config.category, filter_config, "input")
    IN  IF violation = None THEN st
        ELSE LET v == violation.some
             IN  [violations         |-> Append(st.violations, v),
                  highest_severity   |-> v.severity,
                  recommended_action |-> v.action,
                  user_message       |-> Some(v.message)]

\* mutant: >= in place of > in the severity comparison
InputStepGeq(st, query, filter_config) ==
    LET violation == _check_filter(query, filter_config.category, filter_config, "input")
    IN  IF violation = None THEN st
        ELSE LET v == violation.some
             IN  IF _severity_level(v.severity) >= _severity_level(st.highest_severity)
                 THEN [violations         |-> Append(st.violations, v),
                       highest_severity   |-> v.severity,
                       recommended_action |-> v.action,
                       user_message       |-> Some(v.message)]
                 ELSE [st EXCEPT !.violations = Append(st.violations, v)]

\* one iteration of the loop over input_filters
InputStep(st, query, filter_config) ==
    LET violation == _check_filter(query, filter_config.category, filter_config, "input")
    IN  IF violation = None THEN st
        ELSE LET v == violation.some
             IN  IF _severity_level(v.severity) > _severity_level(st.highest_severity)
                 THEN [violations         |-> Append(st.violations, v),
                       highest_severity   |-> v.severity,
                       recommended_action |-> v.action,
                       user_message       |-> Some(v.message)]
                 ELSE [st EXCEPT !.violations = Append(st.violations, v)]

RECURSIVE InputLoop(_, _, _)
InputLoop(st, query, filters) ==
    IF filters = <<>> THEN st
    ELSE The({InputLoop(InputStep(s, query, Head(filters)), query, Tail(filters)) :
                 s \in {st}})

\* mutant: the verdict of the output checker, only high severity blocks
InputIsSafeHighOnly(violations) == \A i \in DOMAIN violations : violations[i].severity # "high"

\* is_safe = len(violations) == 0
InputIsSafe(violations) == Len(violations) = 0

\* the returned dict and the log, given the state the loop ended in
InputResult(self, query, st) ==
    LET is_safe == InputIsSafe(st.violations)
    IN  [result |-> IF st.user_message # None
                    THEN [safe            |-> is_safe,
                          violations      |-> st.violations,
                          action          |-> st.recommended_action,
                          sanitized_query |-> query,
                          message         |-> st.user_message.some]
                    ELSE [safe            |-> is_safe,
                          violations      |-> st.violations,
                          action          |-> st.recommended_action,
                          sanitized_query |-> query],
         events |-> IF ~is_safe /\ self.log_events
                    THEN _log_safety_event(self.safety_events, "input", query,
                                           st.violations, is_safe)
                    ELSE self.safety_events]

check_input_safety(self, query) ==
    IF ~self.enabled
    THEN [result |-> [safe |-> TRUE, action |-> "allow"], events |-> self.safety_events]
    ELSE The({InputResult(self, query, st) :
                 st \in {InputLoop([violations         |-> <<>>,
                                    highest_severity   |-> "low",
                                    recommended_action |-> "allow",
                                    user_message       |-> None],
                                   query, input_filters)}})

(***************************************************************************)
(* SafetyManager.check_output_safety                                       *)
(***************************************************************************)
\* for pattern in patterns: sanitized = re.sub(pattern, replacement, sanitized)
RECURSIVE RedactAll(_, _, _)
RedactAll(sanitized, patterns, replacement) ==
    IF patterns = <<>> THEN sanitized
    ELSE RedactAll(ReSub(Head(patterns), replacement, sanitized), Tail(patterns), replacement)

\* mutant: the policy is looked for in the working copy, not in the response
OutputStepDetectOnCopy(st, response, filter_config) ==
    LET violation == _check_filter(st.sanitized_response, filter_config.category,
                                   filter_config, "output")
    IN  IF violation = None THEN st
        ELSE LET v == violation.some
             IN  IF v.action = "redact"
                 THEN [st EXCEPT
                          !.sanitized_response =
                              RedactAll(st.sanitized_response,
                                        Get(filter_config, "patterns", <<>>),
                                        Get(filter_config, "replacement", "[REDACTED]")),
                          !.violations = Append(st.violations, v),
                          !.action_taken = "redacted"]
                 ELSE IF v.action = "flag"
                 THEN [st EXCEPT !.warnings = Append(st.warnings, v)]
                 ELSE [st EXCEPT !.violations = Append(st.violations, v)]

\* mutant: a flagged finding is recorded as a violation
OutputStepFlagRecorded(st, response, filter_config) ==
    LET violation == _check_filter(response, filter_config.category, filter_config, "output")
    IN  IF violation = None THEN st
        ELSE LET v == violation.some
             IN  IF v.action = "redact"
                 THEN [st EXCEPT
                          !.sanitized_response =
                              RedactAll(st.sanitized_response,
                                        Get(filter_config, "patterns", <<>>),
                                        Get(filter_config, "replacement", "[REDACTED]")),
                          !.violations = Append(st.violations, v),
                          !.action_taken = "redacted"]
                 ELSE [st EXCEPT !.violations = Append(st.violations, v)]

\* one iteration of the loop over output_filters
OutputStep(st, response, filter_config) ==
    LET violation == _check_filter(response, filter_config.category, filter_config, "output")
    IN  IF violation = None THEN st
        ELSE LET v == violation.some
             IN  IF v.action = "redact"
                 THEN [st EXCEPT
                          !.sanitized_response =
                              RedactAll(st.sanitized_response,
                                        Get(filter_config, "patterns", <<>>),
                                        Get(filter_config, "replacement", "[REDACTED]")),
                          !.violations = Append(st.violations, v),
                          !.action_taken = "redacted"]
                 ELSE IF v.action = "flag"
                 THEN [st EXCEPT !.warnings = Append(st.warnings, v)]
                 ELSE [st EXCEPT !.violations = Append(st.violations, v)]

RECURSIVE OutputLoop(_, _, _)
OutputLoop(st, response, filters) ==
    IF filters = <<>> THEN st
    ELSE The({OutputLoop(OutputStep(s, response, Head(filters)), response, Tail(filters)) :
                 s \in {st}})

\* mutant: a redacted violation does not block the response
OutputIsSafeRedactPasses(violations, warnings) ==
    \A i \in DOMAIN violations :
        violations[i].severity = "high" => violations[i].action = "redact"

\* mutant: the verdict of the input checker, any finding blocks
OutputIsSafeAnyFinding(violations, warnings) == Len(violations \o warnings) = 0

\* high_severity_violations = [v for v in violations if v["severity"] == "high"]
\* is_safe = len(high_severity_violations) == 0
OutputIsSafe(violations, warnings) ==
    \A i \in DOMAIN violations : violations[i].severity # "high"

\* mutant: the sanitized text is returned whatever the verdict
OutputResponseLeaky(is_safe, sanitized_response) == Some(sanitized_response)

\* the "response" entry of the returned dict
OutputResponse(is_safe, sanitized_response) ==
    IF is_safe THEN Some(sanitized_response) ELSE None

\* the returned dict and the log, given the state the loop ended in
OutputResult(self, response, st) ==
    LET is_safe == OutputIsSafe(st.violations, st.warnings)
    IN  [result |-> [safe         |-> is_safe,
                     response     |-> OutputResponse(is_safe, st.sanitized_response),
                     violations   |-> st.violations,
                     warnings     |-> st.warnings,
                     action_taken |-> st.action_taken],
         events |-> IF (st.violations # <<>> \/ st.warnings # <<>>) /\ self.log_events
                    THEN _log_safety_event(self.safety_events, "output",
                                           Take(response, 200),
                                           st.violations \o st.warnings, is_safe)
                    ELSE self.safety_events]

\* mutant: the output policies are evaluated whatever "enabled" says
CheckOutputSafetyAlways(self, response) ==
    The({OutputResult(self, response, st) :
            st \in {OutputLoop([violations         |-> <<>>,
                                warnings           |-> <<>>,
                                sanitized_response |-> response,
                                action_taken       |-> "none"],
                               response, output_filters)}})

check_output_safety(self, response) ==
    IF ~self.enabled
    THEN [result |-> [safe |-> TRUE, response |-> Some(response),
                      violations |-> <<>>, warnings |-> <<>>],
          events |-> self.safety_events]
    ELSE The({OutputResult(self, response, st) :
                 st \in {OutputLoop([violations         |-> <<>>,
                                     warnings           |-> <<>>,
                                     sanitized_response |-> response,
                                     action_taken       |-> "none"],
                                    response, output_filters)}})

(***************************************************************************)
(* OutputGuardrail.validate, on the guardrail's own SafetyManager          *)
(***************************************************************************)
\* not response or len(response.strip()) == 0
IsBlank(response) == \A i \in DOMAIN response : response[i].k \in {" ", ""}

\* sources is None or len(sources) == 0
NoSources(sources) == sources = None \/ sources.some = <<>>

\* the conversion of the manager's result to the validation format
Validation(response, sources, safety_result) ==
    [valid |-> safety_result.safe,
     violations |-> Get(safety_result, "violations", <<>>),
     warnings |-> IF NoSources(sources)
                  THEN Append(Get(safety_result, "warnings", <<>>),
                              [validator |-> "citation_check",
                               category  |-> "quality",
                               reason    |-> "No sources provided for verification",
                               severity  |-> "low",
                               action    |-> "flag"])
                  ELSE Get(safety_result, "warnings", <<>>),
     sanitized_output |-> Get(safety_result, "response", Some(response)),
     action_taken |-> Get(safety_result, "action_taken", "none")]

validate(self, response, sources) ==
    IF IsBlank(response)
    THEN [result |-> [valid |-> FALSE,
                      violations |-> << [validator |-> "empty_response",
                                         category  |-> "output_format",
                                         reason    |-> "Response is empty",
                                         severity  |-> "high",
                                         action    |-> "refuse"] >>,
                      warnings |-> <<>>,
                      sanitized_output |-> None,
                      action_taken |-> "blocked"],
          events |-> self.safety_events]
    ELSE The({[result |-> Validation(response, sources, checked.result),
               events |-> checked.events] :
                 checked \in {check_output_safety(self, response)}})

(***************************************************************************)
(* InputGuardrail.validate, on the guardrail's own SafetyManager           *)
(* (validate above is OutputGuardrail.validate)                            *)
(***************************************************************************)
\* the conversion of the manager's result to the validation format
InputValidation(query, safety_result) ==
    [valid |-> safety_result.safe,
     violations |-> Get(safety_result, "violations", <<>>),
     action |-> Get(safety_result, "action", "allow"),
     message |-> Get(safety_result, "message", ""),
     sanitized_input |-> Get(safety_result, "sanitized_query", query)]

validate_input(self, query) ==
    LET violations ==
            (IF PyLen(Strip(query)) < 5
             THEN << [validator |-> "length",
                      category  |-> "input_format",
                      reason    |-> "Query too short (minimum 5 characters)",
                      severity  |-> "low",
                      action    |-> "refuse"] >>
             ELSE <<>>)
            \o
            (IF PyLen(query) > 2000
             THEN << [validator |-> "length",
                      category  |-> "input_format",
                      reason    |-> "Query too long (maximum 2000 characters)",
                      severity  |-> "medium",
                      action    |-> "refuse"] >>
             ELSE <<>>)
    IN  IF violations # <<>>
        THEN [result |-> [valid |-> FALSE,
                          violations |-> violations,
                          action |-> "refuse",
                          message |-> violations[1].reason,
                          sanitized_input |-> query],
              events |-> self.safety_events]
        ELSE The({[result |-> InputValidation(query, checked.result),
                   events |-> checked.events] :
                     checked \in {check_input_safety(self, query)}})

(***************************************************************************)
(* SafetyManager.get_safety_report                                         *)
(***************************************************************************)
RECURSIVE Gcd(_, _)
Gcd(a, b) == IF b = 0 THEN a ELSE Gcd(b, a % b)

\* the float n / d, as a fraction in lowest terms
Float(n, d) == [num |-> n \div Gcd(n, d), den |-> d \div Gcd(n, d)]

\* every violation of every event, in log order
RECURSIVE AllViolations(_)
AllViolations(events) ==
    IF events = <<>> THEN <<>>
    ELSE Get(Head(events), "violations", <<>>) \o AllViolations(Tail(events))

\* mutant: only the unsafe inputs are subtracted
SafeRateInputsOnly(total_events, unsafe_inputs, unsafe_outputs) ==
    IF total_events > 0
    THEN Float(total_events - unsafe_inputs, total_events)
    ELSE Float(1, 1)

\* (total_events - unsafe_inputs - unsafe_outputs) / total_events
\*     if total_events > 0 else 1.0
SafeRate(total_events, unsafe_inputs, unsafe_outputs) ==
    IF total_events > 0
    THEN Float(total_events - unsafe_inputs - unsafe_outputs, total_events)
    ELSE Float(1, 1)

\* mutant: a category is counted once, however many violations carry it
CategoryCountsOnce(all) ==
    [c \in {Get(all[i], "category", "unknown") : i \in DOMAIN all} |-> 1]

\* category_counts[category] = category_counts.get(category, 0) + 1,
\* for every violation of every event
CategoryCounts(all) ==
    [c \in {Get(all[i], "category", "unknown") : i \in DOMAIN all} |->
        Cardinality({i \in DOMAIN all : Get(all[i], "category", "unknown") = c})]

get_safety_report(events) ==
    LET total_events   == Len(events)
        unsafe_inputs  ==
            Cardinality({i \in DOMAIN events : events[i].type = "input" /\ ~events[i].is_safe})
        unsafe_outputs ==
            Cardinality({i \in DOMAIN events : events[i].type = "output" /\ ~events[i].is_safe})
        all            == AllViolations(events)
        SeverityCount(sev) ==
            Cardinality({i \in DOMAIN events : Get(events[i], "highest_severity", "none") = sev})
    IN  [total_events   |-> total_events,
         unsafe_inputs  |-> unsafe_inputs,
         unsafe_outputs |-> unsafe_outputs,
         safe_rate      |-> SafeRate(total_events, unsafe_inputs, unsafe_outputs),
         category_breakdown |-> CategoryCounts(all),
         severity_breakdown |->
             [low |-> SeverityCount("low"), medium |-> SeverityCount("medium"),
              high |-> SeverityCount("high")],
         recent_events  |-> SubSeq(events, IF Len(events) > 10 THEN Len(events) - 9 ELSE 1,
                                   Len(events)),
         all_events     |-> events]

(***************************************************************************)
(* SafetyManager.get_policy_documentation                                  *)
(***************************************************************************)
_get_policy_description(category) ==
    CASE category = "harmful_content" ->
            "Detects queries or responses containing harmful keywords related to violence, weapons, or malicious activities"
      [] category = "prompt_injection" ->
            "Identifies attempts to manipulate the system through prompt injection techniques"
      [] category = "personal_attacks" -> "Filters offensive language and personal attacks"
      [] category = "off_topic" ->
            "Detects queries outside the system's domain expertise (HCI, UX, agentic design)"
      [] category = "data_extraction" ->
            "Prevents attempts to extract system credentials or internal information"
      [] category = "harmful_instructions" ->
            "Blocks output containing step-by-step harmful instructions"
      [] category = "personal_data" ->
            "Redacts personal identifiable information (PII) like SSN, emails, credit cards"
      [] category = "low_quality" ->
            "Flags responses that are too short or lack proper citations"
      [] category = "hallucination_markers" ->
            "Detects phrases indicating the model's uncertainty or limitations"
      [] OTHER -> "Policy for category"

\* the filter of a table with the given category
FilterOf(filters, category) ==
    filters[CHOOSE i \in DOMAIN filters : filters[i].category = category]

get_policy_documentation ==
    [input_policies |->
        [c \in {input_filters[i].category : i \in DOMAIN input_filters} |->
            LET config == FilterOf(input_filters, c)
            IN  [description |-> _get_policy_description(c),
                 severity    |-> Get(config, "severity", None),
                 action      |-> Get(config, "action", None),
                 example_patterns |->
                     IF "patterns" \in DOMAIN config
                     THEN SubSeq(config.patterns, 1,
                                 IF Len(config.patterns) < 2 THEN Len(config.patterns) ELSE 2)
                     ELSE <<>>]],
     output_policies |->
        [c \in {output_filters[i].category : i \in DOMAIN output_filters} |->
            LET config == FilterOf(output_filters, c)
            IN  [description |-> _get_policy_description(c),
                 severity    |-> Get(config, "severity", None),
                 action      |-> Get(config, "action", None)]],
     response_strategies |->
        [refuse   |-> "Block the request entirely and return an error message",
         redirect |-> "Suggest an alternative approach or clarify the system's capabilities",
         redact   |-> "Remove or mask problematic content while allowing the response",
         flag     |-> "Allow the content but log a warning for review"]]

(***************************************************************************)
(* The log file: SafetyManager._setup_logging and the logger.log call of   *)
(* _log_safety_event                                                       *)
(***************************************************************************)
\* the SafetyManager objects of the process: the application's and the two
\* the guardrails build, all from the same configuration
Managers == {"application", "OutputGuardrail", "InputGuardrail"}

\* the FileHandlers attached to the logger "safety": logging.getLogger returns
\* the same logger to every manager, and each manager with log_events adds one
Handlers == IF log_events THEN Cardinality(Managers) ELSE 0

\* the level and the message of the record: the verdict, the summary
\* f"{category}({severity})" of the violations and the content preview
LogLine(event) ==
    [level   |-> IF ~event.is_safe THEN "ERROR" ELSE "WARNING",
     type    |-> event.type,
     is_safe |-> event.is_safe,
     violation_summary |->
         [i \in DOMAIN event.violations |->
             <<event.violations[i].category, event.violations[i].severity>>],
     content_preview |-> event.content_preview]

\* logger.log: every handler writes the line; when the file cannot be written,
\* the error stays inside the handler and no line is added
Written(file, event, written) ==
    IF written THEN file \o [h \in 1..Handlers |-> LogLine(event)] ELSE file

\* mutant: an error of the file write is raised to the caller of the check
OutcomeRaising(op, arg, before, r, file, written) ==
    [events |-> r.events,
     file   |-> IF Len(r.events) > Len(before)
                THEN Written(file, r.events[Len(r.events)], written)
                ELSE file,
     ret    |-> IF "raised" \in DOMAIN r
                THEN [op |-> op, arg |-> arg, raised |-> r.raised]
                ELSE IF Len(r.events) > Len(before) /\ ~written
                THEN [op |-> op, arg |-> arg, raised |-> "OSError"]
                ELSE [op |-> op, arg |-> arg, result |-> r.result]]

\* What a call leaves behind: the event log, the log file and what the caller
\* gets.  r is the value of the check; _log_safety_event appends the event and
\* then hands its line to the logger.
Outcome(op, arg, before, r, file, written) ==
    [events |-> r.events,
     file   |-> IF Len(r.events) > Len(before)
                THEN Written(file, r.events[Len(r.events)], written)
                ELSE file,
     ret    |-> IF "raised" \in DOMAIN r
                THEN [op |-> op, arg |-> arg, raised |-> r.raised]
                ELSE [op |-> op, arg |-> arg, result |-> r.result]]

\* check_output_safety on the "response" entry of an earlier result, which is
\* None or a text: with None an enabled manager reaches re.search(pattern, None)
\* in _check_filter, which raises TypeError
recheck_output_safety(self, response) ==
    IF response = None
    THEN IF self.enabled
         THEN [raised |-> "TypeError", events |-> self.safety_events]
         ELSE [result |-> [safe |-> TRUE, response |-> None,
                           violations |-> <<>>, warnings |-> <<>>],
               events |-> self.safety_events]
    ELSE check_output_safety(self, response.some)

(***************************************************************************)
(* Inputs                                                                  *)
(***************************************************************************)
\* the cap on logged events in Spec, which explores many texts
MaxLogged == 1

\* the cap on logged events in SpecLog, which explores long logs over few texts
MaxEvents == 4

\* the cap on logged events in SpecDisk and SpecUI
MaxShort == 2

\* the longest log handed to get_safety_report in SpecReport
MaxInjected == 2

\* the number of concurrent callers in SpecConc
NumThreads == 2

Hack       == Tok("hack", 4)
Ignore     == Tok("ignore previous instructions", 28)
Reveal     == Tok("reveal your prompt", 18)
Stupid     == Tok("stupid", 6)
Weather    == Tok("weather today", 13)
Agentic    == Tok("agentic UX design", 17)
HowToHack  == Tok("how to hack", 11)
Email      == Tok("john@example.com", 16)
Ssn        == Tok("123-45-6789", 11)
Url        == Tok("www.hci.org", 11)
AsAnAI     == Tok("as an AI assistant", 18)
Tildes     == Tok("~", 60)
Spaces     == Tok(" ", 3)
StepsEmail == Tok("steps to harm@evil.com", 22)
Ux         == Tok("ux", 2)
Long       == Tok("~", 2001)

QueryPhrases == <<Hack, Ignore, Reveal, Stupid, Weather, Agentic, HowToHack>>

ResponsePhrases == <<HowToHack, Email, Ssn, Url, AsAnAI, Tildes, Agentic, Spaces>>

\* the empty text, the single phrases and the pairs of phrases (in the order listed)
Texts(phrases) ==
    {<<>>} \cup {<<phrases[i]>> : i \in DOMAIN phrases}
           \cup {<<phrases[p[1]], phrases[p[2]]>> :
                    p \in {q \in (DOMAIN phrases) \X (DOMAIN phrases) : q[1] <= q[2]}}

\* queries at the length limits of the InputGuardrail
FormatQueries == {<<Ux>>, <<Spaces, Ux, Spaces>>, <<Spaces>>, <<Spaces, Stupid>>, <<Long>>}

Queries == Texts(QueryPhrases) \cup FormatQueries

Responses == Texts(ResponsePhrases)

Sources == {None, Some(<<>>), Some(<<[title |-> "paper"]>>)}

\* responses on which the redact policies fire, alone and together
RedactPhrases == <<HowToHack, Email, StepsEmail, Tildes>>

RedactResponses == Texts(RedactPhrases)

LogQueries == {<<Hack, Weather>>, <<Weather>>, <<Agentic>>}

LogResponses == {<<Email, Tildes>>, <<Agentic>>, <<Tildes, Url>>}

\* the violation _check_filter reports for a text and the i-th policy of a table
InputViolation(query, i) ==
    _check_filter(query, input_filters[i].category, input_filters[i], "input").some

OutputViolation(response, i) ==
    _check_filter(response, output_filters[i].category, output_filters[i], "output").some

\* the events _log_safety_event builds from lists of violations, lists with
\* several violations of one category included
InjectedEvents ==
    {_log_safety_event(<<>>, e.type, e.content, e.violations, e.is_safe)[1] : e \in {
        [type |-> "input", content |-> <<Hack, Ignore>>, is_safe |-> FALSE,
         violations |-> <<InputViolation(<<Hack>>, 1), InputViolation(<<HowToHack>>, 1),
                          InputViolation(<<Ignore>>, 2)>>],
        [type |-> "input", content |-> <<Hack, Ignore>>, is_safe |-> FALSE,
         violations |-> <<InputViolation(<<Hack>>, 1), InputViolation(<<Ignore>>, 2)>>],
        [type |-> "input", content |-> <<Hack>>, is_safe |-> FALSE,
         violations |-> <<InputViolation(<<Hack>>, 1)>>],
        [type |-> "input", content |-> <<Weather>>, is_safe |-> FALSE,
         violations |-> <<InputViolation(<<Weather>>, 4)>>],
        [type |-> "input", content |-> <<Stupid, Weather>>, is_safe |-> FALSE,
         violations |-> <<InputViolation(<<Stupid>>, 3), InputViolation(<<Weather>>, 4),
                          InputViolation(<<Stupid>>, 3)>>],
        [type |-> "output", content |-> <<Email, Ssn>>, is_safe |-> FALSE,
         violations |-> <<OutputViolation(<<Email>>, 2), OutputViolation(<<Ssn>>, 2),
                          OutputViolation(<<Email>>, 3)>>],
        [type |-> "output", content |-> <<Email, Tildes>>, is_safe |-> FALSE,
         violations |-> <<OutputViolation(<<Email, Tildes>>, 2)>>],
        [type |-> "output", content |-> <<Agentic>>, is_safe |-> TRUE,
         violations |-> <<OutputViolation(<<Agentic>>, 3)>>],
        [type |-> "output", content |-> <<AsAnAI, Tildes>>, is_safe |-> TRUE,
         violations |-> <<OutputViolation(<<AsAnAI, Tildes>>, 3),
                          OutputViolation(<<AsAnAI, Tildes>>, 4)>>] }}

\* the logs of at most MaxInjected of these events
InjectedLogs ==
    UNION {[1..n -> InjectedEvents] : n \in 0..MaxInjected}

\* the calls of the concurrent callers
Threads == 1..NumThreads

ConcurrentCalls ==
    {[op |-> "check_input_safety", arg |-> <<Hack, Weather>>],
     [op |-> "check_input_safety", arg |-> <<Agentic>>],
     [op |-> "check_output_safety", arg |-> <<Email, Tildes>>],
     [op |-> "check_output_safety", arg |-> <<Agentic>>],
     [op |-> "check_output_safety", arg |-> <<Tildes, Url>>]}

\* what the user types and what the orchestrator answers in the caller flows
UIs == {"cli", "streamlit"}

UIQueries == {<<Agentic>>, <<Spaces, Agentic>>, <<Hack, Agentic>>, <<Weather>>, <<Spaces>>}

UIResponses == {<<Tildes, Url>>, <<Email, Tildes>>, <<Agentic>>, <<>>}

\* orchestrator.process_query returns a dict with a response or with an error,
\* or raises
OrchestratorOutcomes ==
    {[result |-> [response |-> r]] : r \in UIResponses}
        \cup {[result |-> [error |-> "orchestrator error"]], [raised |-> "Exception"]}

(***************************************************************************)
(* State machine                                                           *)
(***************************************************************************)
\* the application's SafetyManager
Manager == [enabled |-> enabled, log_events |-> log_events, safety_events |-> safety_events]

\* the SafetyManager the OutputGuardrail builds from the same configuration
GuardrailManager ==
    [enabled |-> enabled, log_events |-> log_events, safety_events |-> og_safety_events]

\* the SafetyManager the InputGuardrail builds from the same configuration
InputGuardrailManager ==
    [enabled |-> enabled, log_events |-> log_events, safety_events |-> ig_safety_events]

\* what __init__ leaves, apart from the application's event log
Constructed ==
    /\ enabled \in BOOLEAN
    /\ og_safety_events = <<>>
    /\ ig_safety_events = <<>>
    /\ safety_log = <<>>
    /\ calls = [t \in Threads |-> [pc |-> "idle"]]
    /\ flow = [pc |-> "prompt"]
    /\ ret = [op |-> "__init__"]

\* SafetyManager.__init__ and the guardrails' __init__, for any configuration
Init ==
    /\ Constructed
    /\ log_events \in BOOLEAN
    /\ safety_events = <<>>

CheckInputSafety(query, written) ==
    \E r \in {check_input_safety(Manager, query)} :
      \E o \in {Outcome("check_input_safety", query, safety_events, r, safety_log, written)} :
        /\ safety_events' = o.events
        /\ safety_log' = o.file
        /\ ret' = o.ret
        /\ UNCHANGED <<enabled, log_events, og_safety_events, ig_safety_events, calls, flow>>

CheckOutputSafety(response, written) ==
    \E r \in {check_output_safety(Manager, response)} :
      \E o \in {Outcome("check_output_safety", response, safety_events, r, safety_log,
                        written)} :
        /\ safety_events' = o.events
        /\ safety_log' = o.file
        /\ ret' = o.ret
        /\ UNCHANGED <<enabled, log_events, og_safety_events, ig_safety_events, calls, flow>>

\* a second check_output_safety, on the response the first call returned
RecheckOutputSafety(written) ==
    /\ ret.op = "check_output_safety"
    /\ \E r \in {recheck_output_safety(Manager, ret.result.response)} :
         \E o \in {Outcome("recheck_output_safety", ret.result.response, safety_events, r,
                           safety_log, written)} :
           /\ safety_events' = o.events
           /\ safety_log' = o.file
           /\ ret' = o.ret
    /\ UNCHANGED <<enabled, log_events, og_safety_events, ig_safety_events, calls, flow>>

Validate(response, sources, written) ==
    \E r \in {validate(GuardrailManager, response, sources)} :
      \E o \in {Outcome("validate", response, og_safety_events, r, safety_log, written)} :
        /\ og_safety_events' = o.events
        /\ safety_log' = o.file
        /\ ret' = [op |-> "validate", arg |-> response, sources |-> sources,
                   result |-> r.result]
        /\ UNCHANGED <<enabled, log_events, safety_events, ig_safety_events, calls, flow>>

ValidateInput(query, written) ==
    \E r \in {validate_input(InputGuardrailManager, query)} :
      \E o \in {Outcome("validate_input", query, ig_safety_events, r, safety_log, written)} :
        /\ ig_safety_events' = o.events
        /\ safety_log' = o.file
        /\ ret' = o.ret
        /\ UNCHANGED <<enabled, log_events, safety_events, og_safety_events, calls, flow>>

GetSafetyReport ==
    /\ ret' = [op |-> "get_safety_report", result |-> get_safety_report(safety_events)]
    /\ UNCHANGED <<enabled, log_events, safety_events, og_safety_events, ig_safety_events,
                   safety_log, calls, flow>>

GetPolicyDocumentation ==
    /\ ret' = [op |-> "get_policy_documentation", result |-> get_policy_documentation]
    /\ UNCHANGED <<enabled, log_events, safety_events, og_safety_events, ig_safety_events,
                   safety_log, calls, flow>>

Logged == Len(safety_events) + Len(og_safety_events) + Len(ig_safety_events)

Next ==
    \/ Logged < MaxLogged /\ \E query \in Queries : CheckInputSafety(query, TRUE)
    \/ Logged < MaxLogged /\ \E response \in Responses : CheckOutputSafety(response, TRUE)
    \/ Logged < MaxLogged /\ RecheckOutputSafety(TRUE)
    \/ Logged < MaxLogged /\ \E response \in Responses, sources \in Sources :
                                  Validate(response, sources, TRUE)
    \/ Logged < MaxLogged /\ \E query \in Queries : ValidateInput(query, TRUE)
    \/ GetSafetyReport
    \/ GetPolicyDocumentation

Spec == Init /\ [][Next]_vars

NextLog ==
    \/ Logged < MaxEvents /\ \E query \in LogQueries : CheckInputSafety(query, TRUE)
    \/ Logged < MaxEvents /\ \E response \in LogResponses : CheckOutputSafety(response, TRUE)
    \/ GetSafetyReport
    \/ GetPolicyDocumentation

SpecLog == Init /\ [][NextLog]_vars

(***************************************************************************)
(* The log file may fail: every write succeeds or fails                    *)
(***************************************************************************)
NextDisk ==
    \/ Logged < MaxShort /\ \E query \in LogQueries, written \in BOOLEAN :
                                CheckInputSafety(query, written)
    \/ Logged < MaxShort /\ \E response \in LogResponses, written \in BOOLEAN :
                                CheckOutputSafety(response, written)
    \/ GetSafetyReport

SpecDisk == Init /\ [][NextDisk]_vars

(***************************************************************************)
(* check_output_safety on responses with several redactions                *)
(***************************************************************************)
NextRedact ==
    \/ Logged < MaxShort /\ \E response \in RedactResponses :
                                CheckOutputSafety(response, TRUE)
    \/ GetSafetyReport

SpecRedact == Init /\ [][NextRedact]_vars

(***************************************************************************)
(* get_safety_report as a function of the log: the log is handed over      *)
(***************************************************************************)
\* a manager without a log file whose log holds the handed events
InitReport ==
    /\ Constructed
    /\ log_events = FALSE
    /\ safety_events \in InjectedLogs

NextReport == GetSafetyReport

SpecReport == InitReport /\ [][NextReport]_vars

(***************************************************************************)
(* Concurrent callers of one SafetyManager.  A call touches shared data    *)
(* twice: list.append on safety_events, one atomic step, and the write of  *)
(* the line, which the handler does under its lock.                        *)
(***************************************************************************)
\* a caller enters check_input_safety or check_output_safety
CallEnter(t, call) ==
    /\ calls[t].pc = "idle"
    /\ calls' = [calls EXCEPT ![t] = [pc |-> "checking", op |-> call.op, arg |-> call.arg]]
    /\ UNCHANGED <<enabled, log_events, safety_events, og_safety_events, ig_safety_events,
                   safety_log, flow, ret>>

\* the policies are evaluated on the caller's own data, and the event, if one
\* is due, is appended to the shared list
CallAppend(t) ==
    /\ calls[t].pc = "checking"
    /\ \E r \in {IF calls[t].op = "check_input_safety"
                 THEN check_input_safety(Manager, calls[t].arg)
                 ELSE check_output_safety(Manager, calls[t].arg)} :
         /\ safety_events' = r.events
         /\ calls' = [calls EXCEPT ![t] =
                         IF Len(r.events) > Len(safety_events)
                         THEN [pc |-> "logging", op |-> calls[t].op, arg |-> calls[t].arg,
                               result |-> r.result, event |-> r.events[Len(r.events)]]
                         ELSE [pc |-> "returned", op |-> calls[t].op, arg |-> calls[t].arg,
                               result |-> r.result]]
    /\ UNCHANGED <<enabled, log_events, og_safety_events, ig_safety_events, safety_log,
                   flow, ret>>

\* the line of the caller's event is written, and the call returns
CallEmit(t, written) ==
    /\ calls[t].pc = "logging"
    /\ safety_log' = Written(safety_log, calls[t].event, written)
    /\ calls' = [calls EXCEPT ![t] = [pc |-> "returned", op |-> calls[t].op,
                                       arg |-> calls[t].arg, result |-> calls[t].result]]
    /\ UNCHANGED <<enabled, log_events, safety_events, og_safety_events, ig_safety_events,
                   flow, ret>>

NextConc ==
    \/ \E t \in Threads, call \in ConcurrentCalls : CallEnter(t, call)
    \/ \E t \in Threads : CallAppend(t)
    \/ \E t \in Threads, written \in BOOLEAN : CallEmit(t, written)

SpecConc == Init /\ [][NextConc]_vars

(***************************************************************************)
(* The caller flows: the loop of CLI.run and process_query of the          *)
(* Streamlit application                                                   *)
(***************************************************************************)
\* mutant: the query goes to the orchestrator whatever the verdict
SubmitUnchecked(ui, query, written) ==
    /\ flow.pc = "prompt"
    /\ "ui" \in DOMAIN flow => flow.ui = ui
    /\ Strip(query) # <<>>
    /\ \E q \in {IF ui = "cli" THEN Strip(query) ELSE query} :
       \E r \in {check_input_safety(Manager, q)} :
       \E o \in {Outcome("check_input_safety", q, safety_events, r, safety_log, written)} :
         /\ safety_events' = o.events
         /\ safety_log' = o.file
         /\ ret' = o.ret
         /\ flow' = [pc |-> "orchestrator", ui |-> ui, query |-> q]
    /\ UNCHANGED <<enabled, log_events, og_safety_events, ig_safety_events, calls>>

\* The user enters a query.  The CLI strips it, both skip a blank one; the
\* input check decides whether the flow goes on to the orchestrator or shows
\* the violation and returns to the prompt.
Submit(ui, query, written) ==
    /\ flow.pc = "prompt"
    /\ "ui" \in DOMAIN flow => flow.ui = ui
    /\ Strip(query) # <<>>
    /\ \E q \in {IF ui = "cli" THEN Strip(query) ELSE query} :
       \E r \in {check_input_safety(Manager, q)} :
       \E o \in {Outcome("check_input_safety", q, safety_events, r, safety_log, written)} :
         /\ safety_events' = o.events
         /\ safety_log' = o.file
         /\ ret' = o.ret
         /\ flow' = IF r.result.safe
                    THEN [pc |-> "orchestrator", ui |-> ui, query |-> q]
                    ELSE [pc |-> "prompt", ui |-> ui, query |-> q,
                          shown |-> [kind |-> "violation",
                                     message |-> Get(r.result, "message",
                                                     "This query violates safety policies.")]]
    /\ UNCHANGED <<enabled, log_events, og_safety_events, ig_safety_events, calls>>

\* orchestrator.process_query(query) is called and answers.  An exception is
\* shown as an error by both flows; a result with an error ends process_query
\* of the Streamlit application, the CLI goes on with it.
Orchestrate(outcome) ==
    /\ flow.pc = "orchestrator"
    /\ ret' = [op |-> "process_query", arg |-> flow.query] @@ outcome
    /\ flow' = IF "raised" \in DOMAIN outcome
                  \/ (flow.ui = "streamlit" /\ "error" \in DOMAIN outcome.result)
               THEN [pc |-> "prompt", ui |-> flow.ui, query |-> flow.query,
                     shown |-> [kind |-> "error"]]
               ELSE [pc |-> "output", ui |-> flow.ui, query |-> flow.query,
                     result |-> outcome.result]
    /\ UNCHANGED <<enabled, log_events, safety_events, og_safety_events, ig_safety_events,
                   safety_log, calls>>

\* what the flow shows for the orchestrator's result and the output verdict:
\* _display_result of the CLI (the later of its two definitions, which is the
\* one the class keeps) prints the response of the orchestrator's result;
\* process_query of the Streamlit application returns the response of the
\* verdict, or the blocked notice when the verdict is not safe
Shown(ui, result, response, output_safety) ==
    IF ui = "cli"
    THEN IF "error" \in DOMAIN result THEN [kind |-> "error"]
         ELSE [kind |-> "response", text |-> Some(response)]
    ELSE IF output_safety.safe
         THEN [kind |-> "response", text |-> Get(output_safety, "response", Some(response))]
         ELSE [kind |-> "blocked"]

\* the output check of the orchestrator's response, and the display
Deliver(written) ==
    /\ flow.pc = "output"
    /\ \E response \in {Get(flow.result, "response", <<>>)} :
       \E r \in {check_output_safety(Manager, response)} :
       \E o \in {Outcome("check_output_safety", response, safety_events, r, safety_log,
                         written)} :
         /\ safety_events' = o.events
         /\ safety_log' = o.file
         /\ ret' = o.ret
         /\ flow' = [pc |-> "prompt", ui |-> flow.ui, query |-> flow.query,
                     shown |-> Shown(flow.ui, flow.result, response, r.result)]
    /\ UNCHANGED <<enabled, log_events, og_safety_events, ig_safety_events, calls>>

NextUI ==
    \/ Logged < MaxShort /\ \E ui \in UIs, query \in UIQueries : Submit(ui, query, TRUE)
    \/ \E outcome \in OrchestratorOutcomes : Orchestrate(outcome)
    \/ Deliver(TRUE)
    \/ flow.pc = "prompt" /\ GetSafetyReport

SpecUI == Init /\ [][NextUI]_vars

(***************************************************************************)
(* Properties                                                              *)
(***************************************************************************)
IsCall(op) == ret.op = op

\* C1: with checking enabled, a result of check_output_safety with safe = false
\* has response = None, and a result of OutputGuardrail.validate with
\* valid = false has sanitized_output = None.
C1_UnsafeResponseWithheld ==
    enabled =>
        /\ (IsCall("check_output_safety") /\ ~ret.result.safe) => ret.result.response = None
        /\ (IsCall("validate") /\ ~ret.result.valid) => ret.result.sanitized_output = None

\* a response on which a redact policy fired is judged invalid by the guardrail
C1_Witness ==
    /\ enabled
    /\ IsCall("validate")
    /\ ~ret.result.valid
    /\ ret.result.action_taken = "redacted"
    /\ ret.result.sanitized_output = None

\* C2: check_output_safety returns safe = true exactly when no entry of the
\* returned violations has severity high; warnings never make safe false.
C2_SafeIffNoHighViolation ==
    IsCall("check_output_safety") =>
        (ret.result.safe <=>
            \A i \in DOMAIN ret.result.violations : ret.result.violations[i].severity # "high")

\* a medium and a low warning were raised and the response is still safe
C2_Witness ==
    /\ IsCall("check_output_safety")
    /\ ret.result.safe
    /\ ret.result.violations = <<>>
    /\ \E i \in DOMAIN ret.result.warnings : ret.result.warnings[i].severity = "medium"
    /\ \E i \in DOMAIN ret.result.warnings : ret.result.warnings[i].severity = "low"

\* the categories of a list of violations, in order
Categories(violations) == [i \in DOMAIN violations |-> violations[i].category]

\* C3: for a response of at least 50 characters that contains an email address
\* and matches no other output policy, check_output_safety replaces the email
\* with "[REDACTED: Personal Information]" and returns safe = true with the
\* redacted text as the response.
C3_EmailRedactedAndDelivered ==
    ( /\ enabled
      /\ IsCall("check_output_safety")
      /\ PyLen(ret.arg) >= 50
      /\ \E i \in DOMAIN ret.arg : ret.arg[i] = Email
      /\ Categories(ret.result.violations) = <<"personal_data">>
      /\ ret.result.warnings = <<>> )
    => /\ ret.result.safe
       /\ ret.result.response =
              Some([i \in DOMAIN ret.arg |->
                       IF ret.arg[i] = Email
                       THEN Tok("[REDACTED: Personal Information]", 32)
                       ELSE ret.arg[i]])

\* C4: with checking enabled, check_input_safety returns safe = true if and
\* only if its returned violations list is empty.
C4_InputSafeIffNoViolation ==
    (enabled /\ IsCall("check_input_safety")) =>
        (ret.result.safe <=> ret.result.violations = <<>>)

\* a query with a single low-severity violation is unsafe
C4_Witness ==
    /\ enabled
    /\ IsCall("check_input_safety")
    /\ ~ret.result.safe
    /\ Len(ret.result.violations) = 1
    /\ ret.result.violations[1].severity = "low"

\* C5: whenever the violations of a query include one of low and one of high
\* severity, the returned action and message are those of a high-severity
\* violation and not those of the low-severity one.
C5_HighOverridesLow ==
    LET vs == ret.result.violations
    IN  ( /\ enabled
          /\ IsCall("check_input_safety")
          /\ \E i \in DOMAIN vs : vs[i].severity = "low"
          /\ \E j \in DOMAIN vs : vs[j].severity = "high" )
        => /\ "message" \in DOMAIN ret.result
           /\ \E j \in DOMAIN vs :
                /\ vs[j].severity = "high"
                /\ ret.result.action = vs[j].action
                /\ ret.result.message = vs[j].message
           /\ \A i \in DOMAIN vs :
                vs[i].severity = "low" =>
                    /\ ret.result.action # vs[i].action
                    /\ ret.result.message # vs[i].message

\* the high-severity violation was found first and the low-severity one later
C5_Witness ==
    LET vs == ret.result.violations
    IN  /\ enabled
        /\ IsCall("check_input_safety")
        /\ \E i \in DOMAIN vs, j \in DOMAIN vs :
              i < j /\ vs[i].severity = "high" /\ vs[j].severity = "low"
        /\ ret.result.action = "refuse"

\* the low-severity violation was found first and the high-severity one later
C5_WitnessLowFirst ==
    LET vs == ret.result.violations
    IN  /\ enabled
        /\ IsCall("check_input_safety")
        /\ \E i \in DOMAIN vs, j \in DOMAIN vs :
              i < j /\ vs[i].severity = "low" /\ vs[j].severity = "high"
        /\ ret.result.action = "refuse"

\* the position of a category in the declaration order of the input policies
Declared(category) == CHOOSE i \in DOMAIN input_filters : input_filters[i].category = category

\* the highest severity level among the violations, 0 if there are none
MaxLevel(vs) ==
    IF vs = <<>> THEN 0
    ELSE CHOOSE l \in {_severity_level(vs[i].severity) : i \in DOMAIN vs} :
            \A i \in DOMAIN vs : _severity_level(vs[i].severity) <= l

\* C6: check_input_safety lists the violations in the declaration order of the
\* policies, and a violation of equal or lower severity than the highest seen
\* so far never replaces action or message: the first violation of the maximal
\* severity supplies them (none does when no violation exceeds the initial
\* severity low).
C6_FirstOfMaximalSeverityWins ==
    LET vs == ret.result.violations
    IN  (enabled /\ IsCall("check_input_safety")) =>
            /\ \A i \in DOMAIN vs, j \in DOMAIN vs :
                  i < j => Declared(vs[i].category) < Declared(vs[j].category)
            /\ MaxLevel(vs) > _severity_level("low") =>
                  LET first == CHOOSE i \in DOMAIN vs :
                                  /\ _severity_level(vs[i].severity) = MaxLevel(vs)
                                  /\ \A j \in 1..(i - 1) :
                                        _severity_level(vs[j].severity) < MaxLevel(vs)
                  IN  /\ ret.result.action = vs[first].action
                      /\ ret.result.message = vs[first].message
            /\ MaxLevel(vs) <= _severity_level("low") =>
                  /\ ret.result.action = "allow"
                  /\ "message" \notin DOMAIN ret.result

\* two violations of the same maximal severity: the first one's message is returned
C6_Witness ==
    LET vs == ret.result.violations
    IN  /\ enabled
        /\ IsCall("check_input_safety")
        /\ Len(vs) = 2
        /\ vs[1].severity = "high" /\ vs[2].severity = "high"
        /\ vs[1].message # vs[2].message
        /\ ret.result.message = vs[1].message

\* the log after the step is the log before it with exactly one event appended
AppendsOne(before, after) ==
    /\ Len(after) = Len(before) + 1
    /\ SubSeq(after, 1, Len(before)) = before

\* C7: every check_input_safety call that returns safe = false appends exactly
\* one SafetyEvent of type input to safety_events, for every configuration of
\* the manager; a call that returns safe = true appends none.
C7_UnsafeInputAppendsOneEvent ==
    [][ret'.op = "check_input_safety" =>
          IF ~ret'.result.safe
          THEN /\ AppendsOne(safety_events, safety_events')
               /\ safety_events'[Len(safety_events')].type = "input"
          ELSE safety_events' = safety_events]_vars

\* C8: check_output_safety appends exactly one SafetyEvent of type output if
\* and only if its violations or its warnings are non-empty, flagged-only
\* checks included; the event's violations are the violations followed by the
\* warnings.
C8_OutputFindingsAppendOneEvent ==
    [][ret'.op = "check_output_safety" =>
          IF ret'.result.violations # <<>> \/ ret'.result.warnings # <<>>
          THEN /\ AppendsOne(safety_events, safety_events')
               /\ safety_events'[Len(safety_events')].type = "output"
               /\ safety_events'[Len(safety_events')].violations =
                      ret'.result.violations \o ret'.result.warnings
          ELSE safety_events' = safety_events]_vars

\* C9: the event log is append-only: over any sequence of check_input_safety,
\* check_output_safety, get_safety_report and get_policy_documentation calls the
\* log before a call is a prefix of the log after it.
C9_EventLogAppendOnly ==
    [][/\ Len(safety_events') >= Len(safety_events)
       /\ SubSeq(safety_events', 1, Len(safety_events)) = safety_events]_vars

\* a report was produced from a log of an input event followed by an output
\* event, and the log is as it was
C9_Witness ==
    /\ IsCall("get_safety_report")
    /\ Len(safety_events) >= 3
    /\ \E i \in DOMAIN safety_events, j \in DOMAIN safety_events :
          i < j /\ safety_events[i].type = "input" /\ safety_events[j].type = "output"
    /\ ret.result.all_events = safety_events

\* C10: the highest_severity of every logged SafetyEvent is the maximum, under
\* low < medium < high, of the severities of the event's violations.
C10_HighestSeverityIsMaximum ==
    \A log \in {safety_events, og_safety_events} :
        \A i \in DOMAIN log :
            _severity_level(log[i].highest_severity) = MaxLevel(log[i].violations)

\* the events of the log of the given type that are not safe
Unsafe(events, type) == {i \in DOMAIN events : events[i].type = type /\ ~events[i].is_safe}

\* C11: get_safety_report returns as unsafe_inputs and unsafe_outputs the
\* numbers of logged events of that type with is_safe = false, and as safe_rate
\* the quotient (total_events - unsafe_inputs - unsafe_outputs) / total_events,
\* 1.0 for an empty log; 4 events with one unsafe input and one unsafe output
\* give 0.5.
C11_SafeRate ==
    IsCall("get_safety_report") =>
        LET n  == Len(safety_events)
            ui == Cardinality(Unsafe(safety_events, "input"))
            uo == Cardinality(Unsafe(safety_events, "output"))
            rate == ret.result.safe_rate
        IN  /\ ret.result.total_events = n
            /\ ret.result.unsafe_inputs = ui
            /\ ret.result.unsafe_outputs = uo
            /\ rate.den > 0
            /\ IF n = 0 THEN rate.num = rate.den
               ELSE rate.num * n = (n - ui - uo) * rate.den
            /\ (n = 4 /\ ui = 1 /\ uo = 1) => rate = [num |-> 1, den |-> 2]

\* a report over 4 events, one an unsafe input, one an unsafe output and two
\* flagged but safe outputs, has safe_rate 0.5
C11_Witness ==
    /\ IsCall("get_safety_report")
    /\ Len(safety_events) = 4
    /\ Cardinality(Unsafe(safety_events, "input")) = 1
    /\ Cardinality(Unsafe(safety_events, "output")) = 1
    /\ ret.result.safe_rate = [num |-> 1, den |-> 2]

\* the violations of an event that carry the category
InCategory(event, c) == {j \in DOMAIN event.violations : event.violations[j].category = c}

\* the number of violations of the category over the events of a log
RECURSIVE ViolationsIn(_, _)
ViolationsIn(events, c) ==
    IF events = <<>> THEN 0
    ELSE Cardinality(InCategory(Head(events), c)) + ViolationsIn(Tail(events), c)

\* the log without its i-th event
Without(events, i) == SubSeq(events, 1, i - 1) \o SubSeq(events, i + 1, Len(events))

\* the events with 3 violations that span 2 distinct categories
ThreeInTwo(events) ==
    {i \in DOMAIN events :
        /\ Len(events[i].violations) = 3
        /\ Cardinality({events[i].violations[j].category : j \in 1..3}) = 2}

C13_BlankResponseBlocked ==
    enabled =>
        /\ (IsCall("check_output_safety") /\ IsBlank(ret.arg)) =>
              /\ ~ret.result.safe
              /\ ret.result.response = None
              /\ ret.result.action_taken = "blocked"
              /\ ret.result.warnings = <<>>
        /\ (IsCall("validate") /\ IsBlank(ret.arg)) =>
              /\ ~ret.result.valid
              /\ ret.result.sanitized_output = None
              /\ ret.result.action_taken = "blocked"
              /\ ret.result.warnings = <<>>

\* C14: with checking enabled, for every query of fewer than 5 characters after
\* trimming, check_input_safety returns safe = false with action = "refuse",
\* and so does InputGuardrail.validate (valid = false).
C14_ShortQueryRefused ==
    enabled =>
        /\ (IsCall("check_input_safety") /\ PyLen(Strip(ret.arg)) < 5) =>
              /\ ~ret.result.safe
              /\ ret.result.action = "refuse"
        /\ (IsCall("validate_input") /\ PyLen(Strip(ret.arg)) < 5) =>
              /\ ~ret.result.valid
              /\ ret.result.action = "refuse"

\* the two guardrails do refuse a blank response and a short query
WrappersRefuse ==
    /\ (IsCall("validate") /\ IsBlank(ret.arg)) =>
          /\ ~ret.result.valid
          /\ ret.result.sanitized_output = None
          /\ ret.result.action_taken = "blocked"
    /\ (IsCall("validate_input") /\ PyLen(Strip(ret.arg)) < 5) =>
          /\ ~ret.result.valid
          /\ ret.result.action = "refuse"

\* C15: on a manager constructed with enabled = false, every
\* check_input_safety call returns safe = true with action = "allow", every
\* check_output_safety call returns safe = true with the response as it was
\* passed, no call reports a violation or a warning, and no call changes
\* safety_events.
C15_DisabledShortCircuit ==
    [][~enabled =>
          /\ ret'.op = "check_input_safety" =>
                /\ ret'.result.safe
                /\ ret'.result.action = "allow"
                /\ Get(ret'.result, "violations", <<>>) = <<>>
          /\ ret'.op = "check_output_safety" =>
                /\ ret'.result.safe
                /\ ret'.result.response = Some(ret'.arg)
                /\ Get(ret'.result, "violations", <<>>) = <<>>
                /\ Get(ret'.result, "warnings", <<>>) = <<>>
          /\ safety_events' = safety_events]_vars

\* a disabled manager returns a response with an email address as it is
C15_Witness ==
    /\ ~enabled
    /\ log_events
    /\ IsCall("check_output_safety")
    /\ \E i \in DOMAIN ret.arg : ret.arg[i] = Email
    /\ ret.result.safe
    /\ ret.result.response = Some(ret.arg)
    /\ safety_events = <<>>

\* a second check_output_safety was made on the response of a first call
Rechecked == IsCall("recheck_output_safety")

\* C16: a second check_output_safety, on the response the first call returned,
\* completes normally and returns a response with the same content, for every
\* first-call response, those on which a redact policy fired included.
C16_RecheckReturnsSameContent ==
    Rechecked =>
        /\ "result" \in DOMAIN ret
        /\ ret.result.response = ret.arg

\* where the first call returned a text, the second call returns that text
RecheckOfTextIsIdentity ==
    (Rechecked /\ ret.arg # None) =>
        /\ "result" \in DOMAIN ret
        /\ ret.result.response = ret.arg

\* C19: check_input_safety and check_output_safety never raise: every call,
\* a call on the "response" of an earlier result included, returns a result
\* with a verdict.
C19_ChecksNeverRaise ==
    ret.op \in {"check_input_safety", "check_output_safety", "recheck_output_safety"} =>
        /\ "raised" \notin DOMAIN ret
        /\ "safe" \in DOMAIN ret.result

\* the findings a call returned
Findings(call) ==
    Get(call.result, "violations", <<>>) \o Get(call.result, "warnings", <<>>)

\* the call was unsafe or flagged
Flagged(call) ==
    IF call.op = "check_input_safety" THEN ~call.result.safe ELSE Findings(call) # <<>>

\* the event is the complete event of the call
EventOf(event, call) ==
    /\ event.type = (IF call.op = "check_input_safety" THEN "input" ELSE "output")
    /\ event.is_safe = call.result.safe
    /\ event.violations = Findings(call)
    /\ event.num_violations = Len(Findings(call))
    /\ event.categories = Categories(Findings(call))
    /\ event.content_preview.text = Take(call.arg, 100)

\* all concurrent calls have returned
AllReturned == \A t \in Threads : calls[t].pc = "returned"

\* the events of the log are, one for one, the events of the unsafe or flagged calls
OneEventPerFlaggedCall ==
    LET flagged == {t \in Threads : Flagged(calls[t])}
    IN  \E f \in [flagged -> DOMAIN safety_events] :
            /\ \A t \in flagged, u \in flagged : f[t] = f[u] => t = u
            /\ \A i \in DOMAIN safety_events : \E t \in flagged : f[t] = i
            /\ \A t \in flagged : EventOf(safety_events[f[t]], calls[t])

\* C17: when check_input_safety and check_output_safety are called
\* concurrently on one SafetyManager, then once all calls have returned
\* safety_events holds exactly one complete event per call that was unsafe or
\* flagged, in some order.
C17_OneEventPerConcurrentCall == AllReturned => OneEventPerFlaggedCall

\* the same for a manager that logs events
ConcurrentAppendsKept == (log_events /\ AllReturned) => OneEventPerFlaggedCall

\* two concurrent calls with findings have returned and the log holds their
\* events in the order opposite to the callers' numbers
ConcurrentAppendsWitness ==
    /\ AllReturned
    /\ \A t \in Threads : Flagged(calls[t])
    /\ Len(safety_events) = NumThreads
    /\ EventOf(safety_events[1], calls[2])
    /\ EventOf(safety_events[2], calls[1])
    /\ calls[1].op # calls[2].op

\* the result of the check of the argument, whatever happens to the log file
CheckResult(op, arg) ==
    IF op = "check_input_safety"
    THEN check_input_safety(Manager, arg).result
    ELSE check_output_safety(Manager, arg).result

EveryHandlerWrites ==
    [][Len(safety_log') > Len(safety_log) =>
          /\ Len(safety_events') = Len(safety_events) + 1
          /\ safety_log' = safety_log \o
                 [h \in 1..Handlers |-> LogLine(safety_events'[Len(safety_events')])]]_vars

\* C20: in the loop of CLI.run and in process_query of the Streamlit
\* application, every call of the orchestrator's process_query comes directly
\* after a check_input_safety call on the same query that returned
\* safe = true; after a verdict safe = false the flow is back at the prompt and
\* shows the violation.
C20_OrchestratorOnlyAfterSafeInput ==
    [][/\ (flow.pc = "orchestrator" /\ flow'.pc # "orchestrator") =>
             /\ ret'.op = "process_query"
             /\ ret'.arg = flow.query
             /\ ret.op = "check_input_safety"
             /\ ret.arg = flow.query
             /\ ret.result.safe
       /\ (ret'.op = "check_input_safety" /\ ~ret'.result.safe) =>
             /\ flow'.pc = "prompt"
             /\ flow'.shown.kind = "violation"
       /\ ret'.op = "process_query" => flow.pc = "orchestrator"]_vars

\* with checking enabled the orchestrator has answered a query that the input
\* check judged safe, and the flow is about to check the answer
C20_Witness ==
    /\ enabled
    /\ IsCall("process_query")
    /\ "result" \in DOMAIN ret
    /\ flow.pc = "output"
    /\ flow.query = ret.arg
    /\ flow.ui = "streamlit"

\* an unsafe query was refused at the prompt of the CLI
RefusedAtPrompt ==
    /\ IsCall("check_input_safety")
    /\ ~ret.result.safe
    /\ flow.pc = "prompt"
    /\ flow.ui = "cli"
    /\ flow.shown.kind = "violation"

\* the flow has shown what came of the output check of the orchestrator's response
Delivered == IsCall("check_output_safety") /\ flow.pc = "prompt" /\ "shown" \in DOMAIN flow

\* C21: in the caller flows, the response text shown after the orchestrator
\* returned is the response of the check_output_safety result or a blocked
\* notice; when check_output_safety returned safe = false, no response text is
\* shown, the orchestrator's original one in particular.
C21_ShownIsSanitizedOrBlocked ==
    Delivered =>
        /\ flow.shown.kind = "response" => flow.shown.text = ret.result.response
        /\ ~ret.result.safe => flow.shown.kind \in {"blocked", "error"}

\* process_query of the Streamlit application shows the response of the verdict
\* or the blocked notice
StreamlitShowsSanitizedOrBlocked ==
    (Delivered /\ flow.ui = "streamlit") =>
        IF ret.result.safe
        THEN flow.shown = [kind |-> "response", text |-> ret.result.response]
        ELSE flow.shown = [kind |-> "blocked"]

\* the Streamlit application has replaced a response with an email address by
\* the blocked notice
StreamlitBlockedWitness ==
    /\ Delivered
    /\ flow.ui = "streamlit"
    /\ \E i \in DOMAIN ret.arg : ret.arg[i] = Email
    /\ ~ret.result.safe
    /\ flow.shown = [kind |-> "blocked"]

\* the CLI has printed a response with an email address that the output check
\* judged unsafe
CliPrintsUnsafeResponse ==
    /\ Delivered
    /\ flow.ui = "cli"
    /\ ~ret.result.safe
    /\ flow.shown = [kind |-> "response", text |-> Some(ret.arg)]
    /\ \E i \in DOMAIN ret.arg : ret.arg[i] = Email

\* C22: every result of check_input_safety carries a sanitized_query equal to
\* the query as it was passed, whatever the violations and whether or not
\* checking is enabled; InputGuardrail.validate returns it as sanitized_input.
C22_SanitizedQueryIsOriginal ==
    /\ IsCall("check_input_safety") =>
          /\ "sanitized_query" \in DOMAIN ret.result
          /\ ret.result.sanitized_query = ret.arg
    /\ IsCall("validate_input") => ret.result.sanitized_input = ret.arg

\* with checking enabled the result carries the query, violations or not, and
\* the guardrail returns the query for every configuration
SanitizedQueryOfEnabledManager ==
    /\ (enabled /\ IsCall("check_input_safety")) =>
          /\ "sanitized_query" \in DOMAIN ret.result
          /\ ret.result.sanitized_query = ret.arg
    /\ IsCall("validate_input") => ret.result.sanitized_input = ret.arg

\* a query with violations was returned as it was passed
SanitizedQueryWitness ==
    /\ enabled
    /\ IsCall("check_input_safety")
    /\ Len(ret.result.violations) = 2
    /\ ret.result.sanitized_query = ret.arg
    /\ Len(ret.arg) = 2

\* the step is a check_output_safety call that logged an event
LoggedOutputEvent ==
    /\ ret'.op = "check_output_safety"
    /\ Len(safety_events') = Len(safety_events) + 1
    /\ safety_events'[Len(safety_events')].type = "output"

\* C23: the content_preview of an output SafetyEvent is the original response
\* truncated to its first 200 characters; for a response of 101 to 200
\* characters it is the entire response.
C23_OutputPreviewIsFirst200 ==
    [][LoggedOutputEvent =>
          LET preview == safety_events'[Len(safety_events')].content_preview
          IN  /\ preview.text = Take(ret'.arg, 200)
              /\ PyLen(ret'.arg) <= 200 => preview = [text |-> ret'.arg, ellipsis |-> FALSE]]_vars

\* the preview of an output event is the preview of an input event: the first
\* 100 characters and "..." for a response of more than 100 characters
OutputPreviewIsFirst100 ==
    [][LoggedOutputEvent =>
          safety_events'[Len(safety_events')].content_preview =
              IF PyLen(ret'.arg) > 100
              THEN [text |-> Take(ret'.arg, 100), ellipsis |-> TRUE]
              ELSE [text |-> ret'.arg, ellipsis |-> FALSE]]_vars

\* an event was logged for a response of 121 characters
OutputPreviewWitness ==
    /\ IsCall("check_output_safety")
    /\ PyLen(ret.arg) = 121
    /\ Len(safety_events) = 1
    /\ safety_events[1].content_preview.ellipsis
    /\ PyLen(safety_events[1].content_preview.text) = 100

\* the state in which the loop of check_output_safety over the policies ends
OutputLoopEnd(response) ==
    OutputLoop([violations         |-> <<>>,
                warnings           |-> <<>>,
                sanitized_response |-> response,
                action_taken       |-> "none"],
               response, output_filters)

\* the redact-class policies, and whether one is violated by the response
RedactPolicies == {i \in DOMAIN output_filters : output_filters[i].action = "redact"}

Detected(response, i) ==
    \E p \in DOMAIN output_filters[i].patterns :
        ReSearch(output_filters[i].patterns[p], response)

\* the substitutions <<pattern, replacement>> due for a response: every pattern
\* of every redact policy the response violates, in the order of the table
RECURSIVE SubstitutionsFrom(_, _)
SubstitutionsFrom(response, i) ==
    IF i > Len(output_filters) THEN <<>>
    ELSE (IF i \in RedactPolicies /\ Detected(response, i)
          THEN [p \in DOMAIN output_filters[i].patterns |->
                   <<output_filters[i].patterns[p], output_filters[i].replacement>>]
          ELSE <<>>)
         \o SubstitutionsFrom(response, i + 1)

\* a phrase after the substitutions were made one after the other
RECURSIVE Substituted(_, _)
Substituted(tok, substitutions) ==
    IF substitutions = <<>> THEN tok
    ELSE Substituted(IF Head(substitutions)[1] \in Matched(tok)
                     THEN Rewrite(tok, Head(substitutions)[1], Head(substitutions)[2])
                     ELSE tok,
                     Tail(substitutions))

\* C24: when the response violates redact-class policies, the working copy of
\* check_output_safety is the response with every pattern of each of these
\* policies replaced by the policy's replacement, in order, each substitution
\* made on the outcome of the ones before it; whether a policy is violated is
\* decided on the original response; every such violation is recorded and
\* action_taken is "redacted", whatever the verdict.
C24_RedactRewritesWorkingCopy ==
    (enabled /\ IsCall("check_output_safety")) =>
        LET st    == OutputLoopEnd(ret.arg)
            fired == {i \in RedactPolicies : Detected(ret.arg, i)}
        IN  /\ st.sanitized_response =
                   [j \in DOMAIN ret.arg |->
                       Substituted(ret.arg[j], SubstitutionsFrom(ret.arg, 1))]
            /\ ret.result.violations = st.violations
            /\ Len(ret.result.violations) = Cardinality(fired)
            /\ \A i \in fired :
                  \E j \in DOMAIN ret.result.violations :
                      /\ ret.result.violations[j].category = output_filters[i].category
                      /\ ret.result.violations[j].action = "redact"
            /\ ret.result.action_taken = (IF fired # {} THEN "redacted" ELSE "none")
            /\ ret.result.response \in {None, Some(st.sanitized_response)}

\* both redact policies fired on a response in which the first redaction
\* removes what the second policy was found in: both violations are recorded
\* and the working copy carries the first replacement
C24_Witness ==
    /\ enabled
    /\ IsCall("check_output_safety")
    /\ ret.arg = <<Email, StepsEmail>>
    /\ Categories(ret.result.violations) = <<"harmful_instructions", "personal_data">>
    /\ ret.result.action_taken = "redacted"
    /\ ~ret.result.safe
    /\ OutputLoopEnd(ret.arg).sanitized_response =
           <<Tok("[REDACTED: Personal Information]", 32),
             Tok("[CONTENT REMOVED: Potentially harmful instructions]@evil.com", 60)>>

\* the policy is not of the flag class
NotFlag(filter_config) == filter_config.action # "flag"

FlagCategories ==
    {output_filters[i].category : i \in {j \in DOMAIN output_filters : ~NotFlag(output_filters[j])}}

\* C25: a flag-class output finding (low_quality, hallucination_markers) is
\* added to warnings only: it is not in violations, and the violations, the
\* response, action_taken and the verdict are those the check gives without
\* the flag-class policies; a response with flag-class findings only is
\* returned unchanged with safe = true.
C25_FlagOnlyWarns ==
    (enabled /\ IsCall("check_output_safety")) =>
        LET r      == ret.result
            strict == OutputLoop([violations         |-> <<>>,
                                  warnings           |-> <<>>,
                                  sanitized_response |-> ret.arg,
                                  action_taken       |-> "none"],
                                 ret.arg, SelectSeq(output_filters, NotFlag))
            high   == {i \in DOMAIN strict.violations : strict.violations[i].severity = "high"}
        IN  /\ FlagCategories = {"low_quality", "hallucination_markers"}
            /\ \A i \in DOMAIN r.warnings :
                  r.warnings[i].action = "flag" /\ r.warnings[i].category \in FlagCategories
            /\ \A i \in DOMAIN r.violations :
                  r.violations[i].action # "flag" /\ r.violations[i].category \notin FlagCategories
            /\ \A i \in DOMAIN output_filters :
                  ~NotFlag(output_filters[i]) =>
                      (_check_filter(ret.arg, output_filters[i].category, output_filters[i],
                                     "output") # None
                          <=> \E j \in DOMAIN r.warnings :
                                  r.warnings[j].category = output_filters[i].category)
            /\ strict.warnings = <<>>
            /\ r.violations = strict.violations
            /\ r.action_taken = strict.action_taken
            /\ r.safe <=> high = {}
            /\ r.response = (IF high = {} THEN Some(strict.sanitized_response) ELSE None)
            /\ r.violations = <<>> =>
                  r.safe /\ r.response = Some(ret.arg) /\ r.action_taken = "none"

\* a short response with a hallucination marker is flagged by both flag-class
\* policies and returned as it is
C25_Witness ==
    /\ enabled
    /\ IsCall("check_output_safety")
    /\ Categories(ret.result.warnings) = <<"low_quality", "hallucination_markers">>
    /\ ret.result.violations = <<>>
    /\ ret.result.safe
    /\ ret.result.response = Some(ret.arg)
    /\ ret.result.action_taken = "none"
    /\ ret.arg # <<>>

\* no two entries of the list carry the same category
OnePerCategory(findings) ==
    \A i \in DOMAIN findings, j \in DOMAIN findings :
        findings[i].category = findings[j].category => i = j

\* the entry reports the first pattern of its policy that is found in the
\* content or, for a policy of structural checks, the first check that triggers
ReportsFirst(finding, content, filters) ==
    LET config == FilterOf(filters, finding.category)
    IN  IF "matched_pattern" \in DOMAIN finding
        THEN \E p \in DOMAIN config.patterns :
                /\ finding.matched_pattern = config.patterns[p]
                /\ ReSearch(config.patterns[p], content)
                /\ \A q \in 1..(p - 1) : ~ReSearch(config.patterns[q], content)
        ELSE \E c \in DOMAIN config.checks :
                /\ finding.message = config.checks[c].message
                /\ CheckTriggers(content, config.checks[c])
                /\ \A d \in 1..(c - 1) : ~CheckTriggers(content, config.checks[d])

\* C26: one check produces at most one record per policy category: in every
\* result of check_input_safety and check_output_safety, and in every logged
\* SafetyEvent, no two entries of violations and warnings together share a
\* category, however many patterns or checks of the policy match; the record
\* reports the first matching pattern or the first triggering check.
C26_OneRecordPerCategory ==
    /\ (enabled /\ IsCall("check_input_safety")) =>
          /\ OnePerCategory(ret.result.violations)
          /\ \A i \in DOMAIN ret.result.violations :
                ReportsFirst(ret.result.violations[i], ret.arg, input_filters)
    /\ (enabled /\ IsCall("check_output_safety")) =>
          /\ OnePerCategory(ret.result.violations \o ret.result.warnings)
          /\ \A i \in DOMAIN Findings(ret) :
                ReportsFirst(Findings(ret)[i], ret.arg, output_filters)
    /\ \A log \in {safety_events, og_safety_events, ig_safety_events} :
          \A i \in DOMAIN log : OnePerCategory(log[i].violations)

\* a short response with an email address and a social security number: two
\* patterns of personal_data match, and the policy is reported once, by the
\* first of its patterns, which is not the one found first in the text
C26_Witness ==
    /\ enabled
    /\ IsCall("check_output_safety")
    /\ ret.arg = <<Email, Ssn>>
    /\ Len(ret.result.violations) = 1
    /\ ret.result.violations[1].matched_pattern = "personal_data/0"
    /\ Len(ret.result.warnings) = 1
    /\ ret.result.warnings[1].message = "Response is too short (less than 50 characters)"
    /\ Len(safety_events) = 1
    /\ safety_events[1].categories = <<"personal_data", "low_quality">>

\* C27: each logged SafetyEvent is written to the log file exactly once, one
\* line per event, however many SafetyManager objects were constructed in the
\* process before the event is logged.
C27_OneLinePerEvent ==
    [][Logged' = Logged + 1 =>
          \E log \in {safety_events', og_safety_events', ig_safety_events'} :
              /\ log # <<>>
              /\ safety_log' = Append(safety_log, LogLine(log[Len(log)]))]_vars

\* the file holds one line per handler for every logged event
LinesPerEventAreHandlers == Len(safety_log) = Handlers * Logged

\* one unsafe query was logged and the file holds its line three times
TripleLineWitness ==
    /\ IsCall("check_input_safety")
    /\ Len(safety_events) = 1
    /\ Len(safety_log) = 3
    /\ \A i \in 1..3 : safety_log[i] = LogLine(safety_events[1])

C29_UnsafeInputHasActionAndMessage ==
    (IsCall("check_input_safety") /\ ~ret.result.safe) =>
        /\ ret.result.action \in {"refuse", "redirect"}
        /\ "message" \in DOMAIN ret.result
        /\ Categories(ret.result.violations) = <<"off_topic">> =>
              /\ ret.result.action = "redirect"
              /\ ret.result.message = FilterOf(input_filters, "off_topic").message

\* an unsafe query with a violation of medium or high severity does get the
\* action and the message of a policy
UnsafeAboveLowHasActionAndMessage ==
    ( /\ IsCall("check_input_safety")
      /\ ~ret.result.safe
      /\ MaxLevel(ret.result.violations) > _severity_level("low") ) =>
        /\ ret.result.action \in {"refuse", "redirect"}
        /\ "message" \in DOMAIN ret.result

\* an off-topic query was judged unsafe and answered with allow and no message
OffTopicAllowedWitness ==
    /\ IsCall("check_input_safety")
    /\ ret.arg = <<Weather>>
    /\ ~ret.result.safe
    /\ ret.result.action = "allow"
    /\ "message" \notin DOMAIN ret.result

\* C30: every rejection by a guardrail is audited: whenever
\* InputGuardrail.validate or OutputGuardrail.validate returns valid = false,
\* the rejections of the length pre-filters and of an empty response included,
\* exactly one SafetyEvent was appended to the event log of the guardrail's
\* SafetyManager by that call.
C30_WrapperRejectionLogged ==
    [][/\ (ret'.op = "validate_input" /\ ~ret'.result.valid) =>
             AppendsOne(ig_safety_events, ig_safety_events')
       /\ (ret'.op = "validate" /\ ~ret'.result.valid) =>
             AppendsOne(og_safety_events, og_safety_events')]_vars

\* a rejection that comes from the manager's check is logged by a manager
\* that logs events
ManagerRejectionLogged ==
    [][log_events =>
          /\ ( /\ ret'.op = "validate_input"
               /\ ~ret'.result.valid
               /\ \A i \in DOMAIN ret'.result.violations :
                     "validator" \notin DOMAIN ret'.result.violations[i] ) =>
                 AppendsOne(ig_safety_events, ig_safety_events')
          /\ ( /\ ret'.op = "validate"
               /\ ~ret'.result.valid
               /\ \A i \in DOMAIN ret'.result.violations :
                     "validator" \notin DOMAIN ret'.result.violations[i] ) =>
                 AppendsOne(og_safety_events, og_safety_events')]_vars

\* with event logging on, a query of two characters was rejected by the
\* guardrail and its manager's log is empty
UnloggedRejectionWitness ==
    /\ log_events
    /\ IsCall("validate_input")
    /\ ret.arg = <<Ux>>
    /\ ~ret.result.valid
    /\ ig_safety_events = <<>>

====
